---------------------------- MODULE Spec2Model ----------------------------
(***************************************************************************)
(* Model of the LISA_lights_dataset repository:                            *)
(*   src/daug.py            - the image augmentation transforms            *)
(*   src/lisa_processor.py  - the dataset conversion script                *)
(*                                                                         *)
(* Spec      : one call of a daug.py function on a caller-owned input.     *)
(* LisaSpec  : the annotation-row loop of lisa_processor.py.               *)
(*                                                                         *)
(* Arrays are records [kind, rank, h, w, rows]; rows is 1-indexed, so the  *)
(* Python index k is the TLA+ index k+1.  A rank-3 pixel is a 3-tuple of   *)
(* channel values, a rank-2 pixel a number.                                *)
(***************************************************************************)
EXTENDS Integers, Sequences, FiniteSets, TLC

VARIABLES img, imgNow, call, outcome,
          s_num, rows_read, cnt, green_cnt, red_cnt, saved, pc

daugVars == <<img, imgNow, call, outcome>>
lisaVars == <<s_num, rows_read, cnt, green_cnt, red_cnt, saved, pc>>
vars == <<img, imgNow, call, outcome,
          s_num, rows_read, cnt, green_cnt, red_cnt, saved, pc>>

---------------------------------------------------------------------------
(* Bounds of the model *)

\* largest image height and width
MaxDim == 3
\* pixel values start at 0..MaxBase
MaxBase == 1
\* shift / roll distances range over -MaxPx..MaxPx
MaxPx == 4
\* noise samples (already scaled by 255) range over 0..MaxNoise
MaxNoise == 1
\* noise amounts range over 0..MaxAmt
MaxAmt == 1
\* annotation rows read over the whole run of the script
MaxRows == 4

---------------------------------------------------------------------------
(* Python values *)

NoneVal == [kind |-> "NoneType", rank |-> 0, h |-> 0, w |-> 0, rows |-> << >>]

Return(v, alias) == [kind |-> "return", exc |-> "", val |-> v, alias |-> alias]

Raise(e) == [kind |-> "raise", exc |-> e, val |-> NoneVal, alias |-> FALSE]

NotCalled == [kind |-> "none", exc |-> "", val |-> NoneVal, alias |-> FALSE]

\* int(x) of the float num/den: truncation toward zero
IntTrunc(num, den) ==
    IF num >= 0 THEN num \div den ELSE -((-num) \div den)

Abs(n) == IF n < 0 THEN -n ELSE n

Min2(a, b) == IF a <= b THEN a ELSE b

Max2(a, b) == IF a >= b THEN a ELSE b

\* a[k] on an axis of length len: negative k counts from the end;
\* -1 stands for IndexError
PyIndex(len, k) ==
    LET n == IF k < 0 THEN k + len ELSE k
    IN  IF n < 0 \/ n >= len THEN -1 ELSE n

\* a[start:stop] on an axis of length len: the selected 0-based indices
PySliceLo(len, start) ==
    IF start < 0 THEN Max2(start + len, 0) ELSE Min2(start, len)

PySlice(len, start, stop) ==
    LET lo == PySliceLo(len, start)
        hi == PySliceLo(len, stop)
    IN  [i \in 1..Max2(hi - lo, 0) |-> lo + i - 1]

---------------------------------------------------------------------------
(* numpy *)

Rev(s) == [i \in 1..Len(s) |-> s[Len(s) + 1 - i]]

\* isinstance(obj, cls): numpy.array is a built-in function, not a class,
\* so isinstance raises TypeError for every obj
IsInstance(a, cls) ==
    CASE cls = "numpy.ndarray" -> [raises |-> FALSE, value |-> a.kind = "ndarray"]
      [] cls = "numpy.array"   -> [raises |-> TRUE,  value |-> FALSE]

\* np.array(x): a new ndarray with the contents of x
np_array(a) == [a EXCEPT !.kind = "ndarray"]

\* np.dstack([a, a, a]) of a rank-2 array
np_dstack3(a) ==
    [kind |-> "ndarray", rank |-> 3, h |-> a.h, w |-> a.w,
     rows |-> [i \in 1..a.h |-> [j \in 1..a.w |->
                  <<a.rows[i][j], a.rows[i][j], a.rows[i][j]>>]]]

np_flipud(a) == [a EXCEPT !.rows = Rev(a.rows)]

np_fliplr(a) == [a EXCEPT !.rows = [i \in 1..a.h |-> Rev(a.rows[i])]]

\* np.roll(a, px, axis=0): element i moves to (i + px) mod h
np_roll0(a, px) ==
    IF a.h = 0 THEN a
    ELSE [a EXCEPT !.rows = [i \in 1..a.h |->
                                a.rows[((i - 1 - px) % a.h) + 1]]]

\* np.roll(a, px, axis=1)
np_roll1(a, px) ==
    IF a.w = 0 THEN a
    ELSE [a EXCEPT !.rows = [i \in 1..a.h |-> [j \in 1..a.w |->
                                a.rows[i][((j - 1 - px) % a.w) + 1]]]]

np_transpose(a) ==
    [a EXCEPT !.h = a.w, !.w = a.h,
              !.rows = [i \in 1..a.w |-> [j \in 1..a.h |-> a.rows[j][i]]]]

\* np.rot90(a, k) for k = 1 and k = -1: k = 1 is transpose(flip(a, 1)),
\* k = -1 (k % 4 = 3) is flip(transpose(a), 1)
np_rot90(a, k) ==
    IF k = 1 THEN np_transpose(np_fliplr(a))
    ELSE np_fliplr(np_transpose(a))

\* a[r0:r1, c0:c1, :]
Slice2(a, r0, r1, c0, c1) ==
    LET rs == PySlice(a.h, r0, r1)
        cs == PySlice(a.w, c0, c1)
    IN  [a EXCEPT !.h = Len(rs), !.w = Len(cs),
                  !.rows = [i \in 1..Len(rs) |-> [j \in 1..Len(cs) |->
                               a.rows[rs[i] + 1][cs[j] + 1]]]]

\* a[r0:, :, :] = b[r0:, :, :]   (r0, r1 0-based, half-open)
SetRows(a, b, r0, r1) ==
    [a EXCEPT !.rows = [i \in 1..a.h |->
        IF r0 < i /\ i <= r1 THEN b.rows[i] ELSE a.rows[i]]]

\* a[:, c0:c1, :] = b[:, c0:c1, :]
SetCols(a, b, c0, c1) ==
    [a EXCEPT !.rows = [i \in 1..a.h |-> [j \in 1..a.w |->
        IF c0 < j /\ j <= c1 THEN b.rows[i][j] ELSE a.rows[i][j]]]]

\* a[dst, :, :] = a[src, :, :]   (0-based, already normalised)
CopyRow(a, dst, src) == [a EXCEPT !.rows[dst + 1] = a.rows[src + 1]]

\* a[:, dst, :] = a[:, src, :]
CopyCol(a, dst, src) ==
    [a EXCEPT !.rows = [i \in 1..a.h |->
                           [a.rows[i] EXCEPT ![dst + 1] = a.rows[i][src + 1]]]]

---------------------------------------------------------------------------
(* daug.py *)

force_RGB_array(a) ==
    IF IsInstance(a, "numpy.array").raises THEN Raise("TypeError")
    ELSE LET own == IsInstance(a, "numpy.array").value
             arr == IF own THEN a ELSE np_array(a)
         IN  IF arr.rank = 3 THEN Return(arr, own)
             ELSE IF arr.rank = 2 THEN Return(np_dstack3(arr), FALSE)
             ELSE Return(NoneVal, FALSE)

rot90(a, ccw) ==
    LET n == force_RGB_array(a)
        k == IF ccw THEN -1 ELSE 1
    IN  IF n.kind = "raise" THEN n
        ELSE IF n.val.rank = 0 THEN Raise("ValueError")
        ELSE Return(np_rot90(n.val, k), FALSE)

flipv(a) ==
    LET n == force_RGB_array(a)
    IN  IF n.kind = "raise" THEN n
        ELSE IF n.val.rank = 0 THEN Raise("ValueError")
        ELSE Return(np_flipud(n.val), FALSE)

fliph(a) ==
    LET n == force_RGB_array(a)
    IN  IF n.kind = "raise" THEN n
        ELSE IF n.val.rank = 0 THEN Raise("ValueError")
        ELSE Return(np_fliplr(n.val), FALSE)

rolldown(a, px) ==
    LET n == force_RGB_array(a)
    IN  IF n.kind = "raise" THEN n
        ELSE IF n.val.rank = 0 THEN Raise("AxisError")
        ELSE Return(np_roll0(n.val, px), FALSE)

rollright(a, px) ==
    LET n == force_RGB_array(a)
    IN  IF n.kind = "raise" THEN n
        ELSE IF n.val.rank = 0 THEN Raise("AxisError")
        ELSE Return(np_roll1(n.val, px), FALSE)

\* fac is given in quarters: the tuple <<n0, n1>> stands for (n0/4, n1/4) and
\* the 1-tuple <<n>> for the scalar n/4, which zoom broadcasts to both axes.  h/2 - h*(f/2.) is then
\* (4h - h*n)/8 and h/2 + h*(f/2.) is (4h + h*n)/8, exact in floating point.
zoom_clamp(fac) ==
    LET f1 == IF fac[1] > 4 THEN <<4, fac[2]>> ELSE fac
        f2 == IF f1[2] > 4 THEN <<f1[1], 4>> ELSE f1
        f3 == IF f2[1] <= 0 THEN <<2, f2[2]>> ELSE f2
        f4 == IF f3[2] <= 0 THEN <<f3[1], 2>> ELSE f3
    IN  f4

zoom(a, fac0) ==
    LET n == force_RGB_array(a)
        fac == IF Len(fac0) = 1 THEN <<fac0[1], fac0[1]>> ELSE fac0
        f == zoom_clamp(fac)
    IN  IF n.kind = "raise" THEN n
        ELSE IF n.val.rank = 0 THEN Raise("AttributeError")
        ELSE LET h == n.val.h
                 w == n.val.w
             IN  Return(Slice2(n.val,
                               IntTrunc(4 * h - h * f[1], 8),
                               IntTrunc(4 * h + h * f[1], 8),
                               IntTrunc(4 * w - w * f[2], 8),
                               IntTrunc(4 * w + w * f[2], 8)), FALSE)

crop(a, bounds) ==
    LET n == force_RGB_array(a)
    IN  IF n.kind = "raise" THEN n
        ELSE IF n.val.rank = 0 THEN Raise("TypeError")
        ELSE Return(Slice2(n.val, bounds[1][1], bounds[1][2],
                                  bounds[2][1], bounds[2][2]), FALSE)

\* the arrays np.random.uniform(size=shape) * 255 can yield
NoiseArrays(h, w) == [1..h -> [1..w -> [1..3 -> 0..MaxNoise]]]

AddNoise(a, noise, amt) ==
    [a EXCEPT !.rows = [i \in 1..a.h |-> [j \in 1..a.w |-> [c \in 1..3 |->
                           a.rows[i][j][c] + noise[i][j][c] * amt]]]]

\* the set of outcomes of noisy(a, amt)
noisy(a, amt) ==
    LET n == force_RGB_array(a)
    IN  IF n.kind = "raise" THEN {n}
        ELSE IF n.val.rank = 0 THEN {Raise("AttributeError")}
        ELSE {Return(AddNoise(n.val, noise, amt), FALSE) :
                 noise \in NoiseArrays(n.val.h, n.val.w)}

mirrorleft(a) ==
    LET n == force_RGB_array(a)
    IN  IF n.kind = "raise" THEN n
        ELSE IF n.val.rank = 0 THEN Raise("ValueError")
        ELSE LET flipclone == np_fliplr(n.val)
                 bnd == n.val.w \div 2
             IN  Return(SetCols(n.val, flipclone, bnd, n.val.w), n.alias)

mirrorright(a) ==
    LET n == force_RGB_array(a)
    IN  IF n.kind = "raise" THEN n
        ELSE IF n.val.rank = 0 THEN Raise("ValueError")
        ELSE LET flipclone == np_fliplr(n.val)
                 bnd == n.val.w \div 2
             IN  Return(SetCols(n.val, flipclone, 0, bnd), n.alias)

mirrorup(a) ==
    LET n == force_RGB_array(a)
    IN  IF n.kind = "raise" THEN n
        ELSE IF n.val.rank = 0 THEN Raise("ValueError")
        ELSE LET flipclone == np_flipud(n.val)
                 bnd == n.val.h \div 2
             IN  Return(SetRows(n.val, flipclone, bnd, n.val.h), n.alias)

mirrordown(a) ==
    LET n == force_RGB_array(a)
    IN  IF n.kind = "raise" THEN n
        ELSE IF n.val.rank = 0 THEN Raise("ValueError")
        ELSE LET flipclone == np_flipud(n.val)
                 bnd == n.val.h \div 2
             IN  Return(SetRows(n.val, flipclone, 0, bnd), n.alias)

\* The stretch loops "for i in range(px): img[dst(i)] = img[src]".  The right
\* hand side is indexed first, then the target; either may raise IndexError.
RECURSIVE StretchRows(_, _, _, _, _)
StretchRows(a, i, px, src, up) ==
    IF i >= px THEN Return(a, FALSE)
    ELSE LET s == PyIndex(a.h, src)
             d == PyIndex(a.h, IF up THEN a.h - i - 1 ELSE i)
         IN  IF s = -1 \/ d = -1 THEN Raise("IndexError")
             ELSE StretchRows(CopyRow(a, d, s), i + 1, px, src, up)

RECURSIVE StretchCols(_, _, _, _, _)
StretchCols(a, i, px, src, left) ==
    IF i >= px THEN Return(a, FALSE)
    ELSE LET s == PyIndex(a.w, src)
             d == PyIndex(a.w, IF left THEN a.w - i - 1 ELSE i)
         IN  IF s = -1 \/ d = -1 THEN Raise("IndexError")
             ELSE StretchCols(CopyCol(a, d, s), i + 1, px, src, left)

shiftdown(a, px0) ==
    LET px == Abs(px0)
        r == rolldown(a, px)
    IN  IF r.kind = "raise" THEN r
        ELSE StretchRows(r.val, 0, px, px, FALSE)

shiftup(a, px0) ==
    LET px == Abs(px0)
        r == rolldown(a, -px)
    IN  IF r.kind = "raise" THEN r
        ELSE StretchRows(r.val, 0, px, r.val.h - px, TRUE)

shiftleft(a, px0) ==
    LET px == Abs(px0)
        r == rollright(a, -px)
    IN  IF r.kind = "raise" THEN r
        ELSE StretchCols(r.val, 0, px, r.val.w - px, TRUE)

shiftright(a, px0) ==
    LET px == Abs(px0)
        r == rollright(a, px)
    IN  IF r.kind = "raise" THEN r
        ELSE StretchCols(r.val, 0, px, px, FALSE)

\* the contents of the caller's array after the call: a transform that
\* returns the caller's own object has written its result into it
CallerAfter(a, out) ==
    IF out.kind = "return" /\ out.alias THEN out.val ELSE a

---------------------------------------------------------------------------
(* The caller of daug.py: one call on one input *)

\* np.arange(base, base + h*w).reshape(h, w) and its 3-channel and 1-D forms
ArangeImg(kind, rank, h, w, base) ==
    [kind |-> kind, rank |-> rank, h |-> h, w |-> IF rank = 1 THEN 0 ELSE w,
     rows |-> [i \in 1..h |->
        IF rank = 1 THEN base + i - 1
        ELSE [j \in 1..w |->
            LET k == (i - 1) * w + (j - 1)
            IN  IF rank = 2 THEN base + k
                ELSE <<base + 3 * k, base + 3 * k + 1, base + 3 * k + 2>>]]]

Inputs ==
    {ArangeImg(kind, rank, h, w, base) :
        kind \in {"ndarray", "list"}, rank \in {2, 3},
        h \in 1..MaxDim, w \in 1..MaxDim, base \in 0..MaxBase}
    \cup {ArangeImg(kind, 1, h, 1, base) :
        kind \in {"ndarray", "list"}, h \in 1..MaxDim, base \in 0..MaxBase}

PxVals == (-MaxPx)..MaxPx

\* zoom factors in quarters: -1, 0, 0.25, 0.5, 0.75, 1, 2
FacVals == {-4, 0, 1, 2, 3, 4, 8}

FacArgs == {<<f>> : f \in FacVals} \cup (FacVals \X FacVals)

BoundVals == 0..MaxDim

NoCall ==
    [op |-> "none", px |-> 0, ccw |-> FALSE, fac |-> <<0>>,
     bounds |-> <<<<0, 0>>, <<0, 0>>>>, amt |-> 0]

DaugInit ==
    /\ img \in Inputs
    /\ imgNow = img
    /\ call = NoCall
    /\ outcome = NotCalled

\* the call returns or raises; the caller's array holds what the call left
Finish(c, out) ==
    /\ call = NoCall
    /\ call' = c
    /\ outcome' = out
    /\ imgNow' = CallerAfter(img, out)
    /\ UNCHANGED <<img, s_num, rows_read, cnt, green_cnt, red_cnt, saved, pc>>

Call_force_RGB_array ==
    Finish([NoCall EXCEPT !.op = "force_RGB_array"], force_RGB_array(img))

Call_rot90 ==
    \E ccw \in BOOLEAN :
        Finish([NoCall EXCEPT !.op = "rot90", !.ccw = ccw], rot90(img, ccw))

Call_flipv == Finish([NoCall EXCEPT !.op = "flipv"], flipv(img))

Call_fliph == Finish([NoCall EXCEPT !.op = "fliph"], fliph(img))

Call_rolldown ==
    \E px \in PxVals :
        Finish([NoCall EXCEPT !.op = "rolldown", !.px = px], rolldown(img, px))

Call_rollright ==
    \E px \in PxVals :
        Finish([NoCall EXCEPT !.op = "rollright", !.px = px], rollright(img, px))

Call_zoom ==
    \E fac \in FacArgs :
        Finish([NoCall EXCEPT !.op = "zoom", !.fac = fac], zoom(img, fac))

Call_crop ==
    \E b \in (BoundVals \X BoundVals) \X (BoundVals \X BoundVals) :
        Finish([NoCall EXCEPT !.op = "crop", !.bounds = b], crop(img, b))

Call_noisy ==
    \E amt \in 0..MaxAmt :
        \E out \in noisy(img, amt) :
            Finish([NoCall EXCEPT !.op = "noisy", !.amt = amt], out)

Call_mirrorleft == Finish([NoCall EXCEPT !.op = "mirrorleft"], mirrorleft(img))

Call_mirrorright == Finish([NoCall EXCEPT !.op = "mirrorright"], mirrorright(img))

Call_mirrorup == Finish([NoCall EXCEPT !.op = "mirrorup"], mirrorup(img))

Call_mirrordown == Finish([NoCall EXCEPT !.op = "mirrordown"], mirrordown(img))

Call_shiftdown ==
    \E px \in PxVals :
        Finish([NoCall EXCEPT !.op = "shiftdown", !.px = px], shiftdown(img, px))

Call_shiftup ==
    \E px \in PxVals :
        Finish([NoCall EXCEPT !.op = "shiftup", !.px = px], shiftup(img, px))

Call_shiftleft ==
    \E px \in PxVals :
        Finish([NoCall EXCEPT !.op = "shiftleft", !.px = px], shiftleft(img, px))

Call_shiftright ==
    \E px \in PxVals :
        Finish([NoCall EXCEPT !.op = "shiftright", !.px = px], shiftright(img, px))

DaugNext ==
    \/ Call_force_RGB_array
    \/ Call_rot90
    \/ Call_flipv
    \/ Call_fliph
    \/ Call_rolldown
    \/ Call_rollright
    \/ Call_zoom
    \/ Call_crop
    \/ Call_noisy
    \/ Call_mirrorleft
    \/ Call_mirrorright
    \/ Call_mirrorup
    \/ Call_mirrordown
    \/ Call_shiftdown
    \/ Call_shiftup
    \/ Call_shiftleft
    \/ Call_shiftright

---------------------------------------------------------------------------
(* lisa_processor.py *)

\* subdir_range = range(1, 14)
FirstClip == 1

LastClip == 13

Digit(d) ==
    CASE d = 0 -> "0" [] d = 1 -> "1" [] d = 2 -> "2" [] d = 3 -> "3"
      [] d = 4 -> "4" [] d = 5 -> "5" [] d = 6 -> "6" [] d = 7 -> "7"
      [] d = 8 -> "8" [] d = 9 -> "9"

\* str(n) of a natural number, as the sequence of its decimal digits
RECURSIVE str(_)
str(n) == IF n < 10 THEN <<Digit(n)>> ELSE str(n \div 10) \o <<Digit(n % 10)>>

\* 'green' + '_' + str(green_cnt) + '.jpg'
green_name(n) == <<"green", "_">> \o str(n) \o <<".jpg">>

\* the stop branch naming its file with the go branch's prefix
red_name_copy(n) == <<"green", "_">> \o str(n) \o <<".jpg">>

\* 'red' + '_' + str(red_cnt) + '.jpg'
red_name(n) == <<"red", "_">> \o str(n) \o <<".jpg">>

LisaInit ==
    /\ s_num = FirstClip
    /\ rows_read = 0
    /\ cnt = 0
    /\ green_cnt = 0
    /\ red_cnt = 0
    /\ saved = << >>
    /\ pc = "open_clip"

\* chdir into the clip's annotation and frame directories, read the CSV
OpenClip ==
    /\ pc = "open_clip"
    /\ \E ok \in BOOLEAN : pc' = IF ok THEN "rows" ELSE "crashed"
    /\ UNCHANGED <<s_num, rows_read, cnt, green_cnt, red_cnt, saved>>
    /\ UNCHANGED daugVars

\* what Image.fromarray and save do with the crop: the file is written, the
\* crop is rejected with ValueError, or another exception ends the script
CropResults == {"saved", "ValueError", "crash"}

\* the loop body from the tag test on, for a row named name
CropAndSave(name, res) ==
    /\ saved' = IF res = "saved" THEN Append(saved, name) ELSE saved
    /\ cnt' = IF res = "saved" THEN cnt + 1 ELSE cnt
    /\ pc' = IF res = "crash" THEN "crashed" ELSE pc

\* Image.open or np.array of the frame fails: the script ends
RowOpenFails ==
    /\ pc = "rows"
    /\ rows_read < MaxRows
    /\ rows_read' = rows_read + 1
    /\ pc' = "crashed"
    /\ UNCHANGED <<s_num, cnt, green_cnt, red_cnt, saved>>
    /\ UNCHANGED daugVars

RowGo ==
    /\ pc = "rows"
    /\ rows_read < MaxRows
    /\ rows_read' = rows_read + 1
    /\ green_cnt' = green_cnt + 1
    /\ \E res \in CropResults : CropAndSave(green_name(green_cnt'), res)
    /\ UNCHANGED <<s_num, red_cnt>>
    /\ UNCHANGED daugVars

RowStop ==
    /\ pc = "rows"
    /\ rows_read < MaxRows
    /\ rows_read' = rows_read + 1
    /\ red_cnt' = red_cnt + 1
    /\ \E res \in CropResults : CropAndSave(red_name(red_cnt'), res)
    /\ UNCHANGED <<s_num, green_cnt>>
    /\ UNCHANGED daugVars

\* any other annotation tag: continue
RowOther ==
    /\ pc = "rows"
    /\ rows_read < MaxRows
    /\ rows_read' = rows_read + 1
    /\ UNCHANGED <<s_num, cnt, green_cnt, red_cnt, saved, pc>>
    /\ UNCHANGED daugVars

\* the clip's rows are exhausted: print 'Completed', go to the next clip
EndClip ==
    /\ pc = "rows"
    /\ s_num' = s_num + 1
    /\ pc' = IF s_num = LastClip THEN "done" ELSE "open_clip"
    /\ UNCHANGED <<rows_read, cnt, green_cnt, red_cnt, saved>>
    /\ UNCHANGED daugVars

LisaNext ==
    \/ OpenClip
    \/ RowOpenFails
    \/ RowGo
    \/ RowStop
    \/ RowOther
    \/ EndClip

---------------------------------------------------------------------------
(* Specifications *)

Init == DaugInit /\ LisaInit

Next == DaugNext

Spec == Init /\ [][Next]_vars

LisaStart ==
    /\ LisaInit
    /\ img = NoneVal
    /\ imgNow = NoneVal
    /\ call = NoCall
    /\ outcome = NotCalled

LisaSpec == LisaStart /\ [][LisaNext]_vars

---------------------------------------------------------------------------
(* Claims *)

Called == call.op # "none"

Returned == outcome.kind = "return"

Result == outcome.val

\* the rows of the input as an (h, w, 3) array
NormRows == IF img.rank = 2 THEN np_dstack3(img).rows ELSE img.rows

IsImage == img.rank \in {2, 3}

MirrorOps == {"mirrorleft", "mirrorright", "mirrorup", "mirrordown"}

ShiftOps == {"shiftdown", "shiftup", "shiftleft", "shiftright"}

\* C1: shiftdown(img, px) with 0 < px < H returns an array whose rows 0..px-1
\* equal its row px, whose row px is row 0 of the normalized input, and whose
\* rows i >= px are rows i-px of the normalized input.
C1_ShiftdownStretchesTopRow ==
    (call.op = "shiftdown" /\ IsImage /\ 0 < call.px /\ call.px < img.h) =>
        /\ Returned
        /\ Result.h = img.h
        /\ \A i \in 1..call.px : Result.rows[i] = Result.rows[call.px + 1]
        /\ Result.rows[call.px + 1] = NormRows[1]
        /\ \A i \in (call.px + 1)..img.h : Result.rows[i] = NormRows[i - call.px]

\* the index the mirror op takes column j (or row i) from, 1-based
MirrorSource(op, i, j) ==
    CASE op = "mirrorleft"  -> <<i, Min2(j, img.w + 1 - j)>>
      [] op = "mirrorright" -> <<i, Max2(j, img.w + 1 - j)>>
      [] op = "mirrorup"    -> <<Min2(i, img.h + 1 - i), j>>
      [] op = "mirrordown"  -> <<Max2(i, img.h + 1 - i), j>>

\* C2: each mirror function returns the symmetric image sourced from its
\* half: mirrorleft's column j is the original column min(j, W-1-j),
\* mirrorright's is max(j, W-1-j), mirrorup / mirrordown likewise on rows.
C2_MirrorIsSymmetric ==
    (call.op \in MirrorOps /\ IsImage) =>
        /\ Returned
        /\ Result.h = img.h /\ Result.w = img.w
        /\ \A i \in 1..img.h : \A j \in 1..img.w :
              LET src == MirrorSource(call.op, i, j)
              IN  Result.rows[i][j] = NormRows[src[1]][src[2]]

\* C3: crop(img, [[y_start, x_start], [y_stop, x_stop]]) returns rows
\* y_start..y_stop-1 and columns x_start..x_stop-1 of the normalized image
\* whenever 0 <= y_start <= y_stop <= H and 0 <= x_start <= x_stop <= W.
C3_CropTakesCornerPoints ==
    LET y0 == call.bounds[1][1]
        x0 == call.bounds[1][2]
        y1 == call.bounds[2][1]
        x1 == call.bounds[2][2]
    IN  (call.op = "crop" /\ IsImage /\ y0 <= y1 /\ y1 <= img.h
                          /\ x0 <= x1 /\ x1 <= img.w) =>
            /\ Returned
            /\ Result.h = y1 - y0 /\ Result.w = x1 - x0
            /\ \A i \in 1..(y1 - y0) : \A j \in 1..(x1 - x0) :
                  Result.rows[i][j] = NormRows[y0 + i][x0 + j]

\* C4: rot90(img) rotates clockwise, result[r][c] = input[H-1-c][r], and
\* rot90(img, ccw=True) counter-clockwise, result[r][c] = input[c][W-1-r];
\* the result has shape (W, H, 3).
C4_Rot90Direction ==
    (call.op = "rot90" /\ IsImage) =>
        /\ Returned
        /\ Result.h = img.w /\ Result.w = img.h
        /\ \A r \in 1..img.w : \A c \in 1..img.h :
              Result.rows[r][c] =
                  IF call.ccw THEN NormRows[c][img.w + 1 - r]
                  ELSE NormRows[img.h + 1 - c][r]

\* the clamp of one zoom factor, in quarters
ClampedFac(n) == IF n > 4 THEN 4 ELSE IF n <= 0 THEN 2 ELSE n

\* C5: zoom clamps each component of fac on its own (above 1 to 1, at or
\* below 0 to 0.5) and returns the centered window of the clamped factors,
\* so zoom(img, 2.0) is the full normalized image like zoom(img, 1.0) and
\* zoom(img, 0.0) is zoom(img, 0.5).
C5_ZoomClampsPerAxis ==
    LET fh == ClampedFac(call.fac[1])
        fw == ClampedFac(call.fac[Len(call.fac)])
        r0 == (4 * img.h - img.h * fh) \div 8
        r1 == (4 * img.h + img.h * fh) \div 8
        c0 == (4 * img.w - img.w * fw) \div 8
        c1 == (4 * img.w + img.w * fw) \div 8
    IN  (call.op = "zoom" /\ IsImage) =>
            /\ Returned
            /\ Result.h = r1 - r0 /\ Result.w = c1 - c0
            /\ \A i \in 1..(r1 - r0) : \A j \in 1..(c1 - c0) :
                  Result.rows[i][j] = NormRows[r0 + i][c0 + j]

\* C6: for an input whose rank is neither 2 nor 3 the normalizer, and so
\* every transform, fails with InvalidShapeError and returns no value.
C6_BadRankIsInvalidShapeError ==
    (Called /\ ~IsImage) =>
        outcome.kind = "raise" /\ outcome.exc = "InvalidShapeError"

\* C7: rolldown(img, px) is the circular row shift for every integer px: row
\* (i + px) mod H of the result is row i of the normalized input (so that
\* rolling back by -px restores the normalized input).
C7_RolldownIsCircular ==
    (call.op = "rolldown" /\ IsImage) =>
        /\ Returned
        /\ Result.h = img.h
        /\ \A i \in 1..img.h :
              Result.rows[((i - 1 + call.px) % img.h) + 1] = NormRows[i]

\* C8: a transform writes into the caller's array exactly when it is a
\* mirror function called with an already 3-D array, and then returns the
\* caller's array itself; in every other case the caller's array is as it
\* was before the call.
C8_OnlyMirrorsMutateCaller ==
    Called =>
        IF call.op \in MirrorOps /\ img.rank = 3 /\ img.kind = "ndarray"
        THEN Returned /\ outcome.alias /\ imgNow = Result
        ELSE imgNow = img

\* C9: with px at or beyond the extent (px >= H for shiftdown / shiftup,
\* px >= W for shiftleft / shiftright) every shift function still returns
\* an (H, W, 3) array; none ends in an error.
C9_ShiftBeyondExtentReturns ==
    (/\ call.op \in ShiftOps
     /\ IsImage
     /\ call.px >= (IF call.op \in {"shiftdown", "shiftup"} THEN img.h ELSE img.w)) =>
        /\ Returned
        /\ Result.rank = 3 /\ Result.h = img.h /\ Result.w = img.w

NoDuplicates(s) == \A i, j \in 1..Len(s) : s[i] = s[j] => i = j

\* C10: after any sequence of annotation rows no two saved crops have the
\* same filename, cnt is the number of files saved, and cnt never exceeds
\* green_cnt + red_cnt.
C10_SavedNamesUniqueAndCounted ==
    /\ NoDuplicates(saved)
    /\ cnt = Len(saved)
    /\ cnt <= green_cnt + red_cnt

InSaved(name) == \E i \in 1..Len(saved) : saved[i] = name

\* a rejected green crop consumed a number, a later green crop and a red
\* crop were saved
C10_Witness ==
    /\ \E n \in 1..green_cnt :
          /\ ~InSaved(green_name(n))
          /\ \E m \in (n + 1)..green_cnt : InSaved(green_name(m))
    /\ \E n \in 1..red_cnt : InSaved(red_name(n))
    /\ cnt < green_cnt + red_cnt

=============================================================================
